---- MODULE Spec2Model ----
\* Model of package logh (src/logh.go): named leveled loggers with two-file
\* rotation.  The state is the registry Map, the Logger objects that callers
\* can still hold a reference to, the rotation files on disk and the
\* process-wide default stream os.Stdout.
EXTENDS Integers, Sequences, FiniteSets, TLC

\* ---------------------------------------------------------------- bounds
MaxNew == 2          \* calls of New in one behaviour
MaxEmits == 3        \* calls of Printf/Println in one behaviour
MaxEmitsOne == 4     \* the same, in the behaviours of a single name and path
MaxFaults == 1       \* injected failures of mkdir/stat/remove/open
MaxRun == 3          \* calls of Printf/Println that follow a New in a claim
MaxEmitsDisk == 2    \* calls of Printf/Println when the disk is not empty at the start

\* ------------------------------------------------------- program constants
maxRotations == 2

\* ------------------------------------------------------------ input sets
Names == {"a", "b"}
FilePaths == {"", "p", "q"}
Levels == <<"debug", "info">>
LevelInputs == -1 .. Len(Levels)
SeverityInputs == 0 .. Len(Levels)
CheckLogSizes == {1, 2}
MaxLogSizes == {9}
Msg == "m"
NewFaults == {"none", "mkdir", "stat0", "stat1", "remove", "open"}
EmitFaults == {"none", "stat", "remove", "open"}

VARIABLES
    Map,        \* registry: name -> index into heap, 0 when the name is absent
    heap,       \* the Logger objects constructed by a successful New
    files,      \* <<filePath, rotation>> -> the file filePath.rotation
    stdout,     \* what has been written to os.Stdout (defaultOutput)
    stdClosed,  \* os.Stdout has been closed
    panicked,   \* a call panicked: the process is gone
    nNew, nEmit, nFault     \* calls and injected failures so far

vars == <<Map, heap, files, stdout, stdClosed, panicked, nNew, nEmit, nFault>>

\* ------------------------------------------------------------ file system
Slots == 0 .. (maxRotations - 1)
FileNames == FilePaths \X Slots
NoFile == [exists |-> FALSE, data |-> <<>>]
EmptyFile == [exists |-> TRUE, data |-> <<>>]

\* *os.File values held in Logger.file
NilFile == [kind |-> "nil", slot |-> 0, closed |-> FALSE, unlinked |-> FALSE, data |-> <<>>]
StdFile == [kind |-> "std", slot |-> 0, closed |-> FALSE, unlinked |-> FALSE, data |-> <<>>]
OpenFile(slot) == [kind |-> "file", slot |-> slot, closed |-> FALSE, unlinked |-> FALSE, data |-> <<>>]
ClosedFile(slot) == [kind |-> "file", slot |-> slot, closed |-> TRUE, unlinked |-> FALSE, data |-> <<>>]

\* One output line of log.Logger.Output with prefix levels[i]+": " and
\* flags 0: "<label>: <message>\n".
Line(label, msg) == [label |-> label, msg |-> msg]
LineSize(ln) == Len(ln.label) + Len(": ") + Len(ln.msg) + Len("\n")

RECURSIVE Size(_)
Size(data) == IF data = <<>> THEN 0 ELSE LineSize(Head(data)) + Size(Tail(data))

\* The text fmt.Printf writes to os.Stdout for an out-of-range level.
Diagnostic == [label |-> "", msg |-> "input level was outside range"]

Log(w, call, slot) == [w EXCEPT !.io = @ \cup {<<call, slot>>}]

\* os.Remove taking the slot's file of every path.
Unlink_AnyPath(w, path, slot) ==
    LET orphan(l) == IF /\ l.file.kind = "file"
                        /\ ~l.file.closed
                        /\ ~l.file.unlinked
                        /\ l.file.slot = slot
                     THEN [l EXCEPT !.file.unlinked = TRUE,
                                    !.file.data = w.files[<<l.filePath, slot>>].data]
                     ELSE l
    IN [w EXCEPT !.files = [fn \in FileNames |-> IF fn[2] = slot THEN NoFile ELSE @[fn]],
                 !.heap = [j \in DOMAIN w.heap |-> orphan(w.heap[j])]]

\* os.Remove of an existing file: the name goes away, a handle that is open
\* on the file keeps the (now unnamed) file.
Unlink(w, path, slot) ==
    LET old == w.files[<<path, slot>>]
        orphan(l) == IF /\ l.filePath = path
                        /\ l.file.kind = "file"
                        /\ ~l.file.closed
                        /\ ~l.file.unlinked
                        /\ l.file.slot = slot
                     THEN [l EXCEPT !.file.unlinked = TRUE, !.file.data = old.data]
                     ELSE l
    IN [w EXCEPT !.files[<<path, slot>>] = NoFile,
                 !.heap = [j \in DOMAIN w.heap |-> orphan(w.heap[j])]]

\* Write of one line to the writer the per-level loggers were created on
\* (always l.file, see initializeLoggers).  A closed file takes nothing; a
\* write that succeeds is noted in w.wrote with the file it went to.
Output(w, i, ln) ==
    LET l == w.heap[i]
        w1 == [w EXCEPT !.wrote = Append(@, [file |-> l.file, ln |-> ln])]
    IN IF l.file.kind = "std"
       THEN IF w.stdClosed THEN w ELSE [w1 EXCEPT !.stdout = Append(@, ln)]
       ELSE IF l.file.kind = "nil" \/ l.file.closed THEN w
       ELSE IF l.file.unlinked THEN [w1 EXCEPT !.heap[i].file.data = Append(@, ln)]
       ELSE [w1 EXCEPT !.files[<<l.filePath, l.file.slot>>].data = Append(@, ln)]

\* ------------------------------------------------------------- Logger
Shutdown(w, i) ==
    LET l == w.heap[i]
        w1 == [w EXCEPT !.heap[i].loggers = "nil"]
    IN IF l.file.kind = "nil" THEN [w1 EXCEPT !.err = FALSE]
       ELSE IF l.file.kind = "std"
       THEN IF w.stdClosed THEN [w1 EXCEPT !.err = TRUE]
            ELSE [w1 EXCEPT !.stdClosed = TRUE, !.err = FALSE]
       ELSE IF l.file.closed THEN [w1 EXCEPT !.err = TRUE]
       ELSE [w1 EXCEPT !.heap[i].file = ClosedFile(l.file.slot), !.err = FALSE]

initializeLoggers(w, i) == [w EXCEPT !.heap[i].loggers = "set"]

\* openFileAndInitialize opening with O_TRUNC: the file starts empty.
openFileAndInitialize_Trunc(w, i, fault) ==
    LET w0 == [w EXCEPT !.heap[i].writesSinceCheckRotate = 0, !.err = FALSE]
        l == w0.heap[i]
        w1 == IF l.file.kind # "nil" THEN Shutdown(w0, i) ELSE w0
        w2 == Log(w1, "open", l.rotation)
        fn == <<l.filePath, l.rotation>>
        w3 == IF fault = "open"
              THEN [w2 EXCEPT !.heap[i].file = StdFile, !.err = TRUE]
              ELSE [w2 EXCEPT !.heap[i].file = OpenFile(l.rotation),
                              !.files[fn] = EmptyFile]
    IN IF l.filePath = ""
       THEN initializeLoggers([w0 EXCEPT !.heap[i].file = StdFile], i)
       ELSE initializeLoggers(w3, i)

openFileAndInitialize(w, i, fault) ==
    LET w0 == [w EXCEPT !.heap[i].writesSinceCheckRotate = 0, !.err = FALSE]
        l == w0.heap[i]
        w1 == IF l.file.kind # "nil" THEN Shutdown(w0, i) ELSE w0
        w2 == Log(w1, "open", l.rotation)
        fn == <<l.filePath, l.rotation>>
        w3 == IF fault = "open"
              THEN [w2 EXCEPT !.heap[i].file = StdFile, !.err = TRUE]
              ELSE [w2 EXCEPT !.heap[i].file = OpenFile(l.rotation),
                              !.files[fn] = IF @.exists THEN @ ELSE EmptyFile]
    IN IF l.filePath = ""
       THEN initializeLoggers([w0 EXCEPT !.heap[i].file = StdFile], i)
       ELSE initializeLoggers(w3, i)

\* checkSizeAndRotate rotating already at maxLogSize (>= for >).
checkSizeAndRotate_AtMax(w, i, fault) ==
    LET l == w.heap[i]
        w0 == Log([w EXCEPT !.heap[i].writesSinceCheckRotate = 0], "stat", l.rotation)
        fi == w0.files[<<l.filePath, l.rotation>>]
        next == IF l.rotation + 1 >= maxRotations THEN 0 ELSE l.rotation + 1
        w1 == Log([w0 EXCEPT !.heap[i].rotation = next], "remove", next)
        w2 == IF w1.files[<<l.filePath, next>>].exists
              THEN Unlink(w1, l.filePath, next)
              ELSE w1
    IN IF l.filePath = "" THEN [w EXCEPT !.err = FALSE]
       ELSE IF fault = "stat" \/ ~fi.exists THEN [w0 EXCEPT !.err = TRUE]
       ELSE IF Size(fi.data) >= l.maxLogSize
       THEN IF fault = "remove" THEN [w1 EXCEPT !.err = TRUE]
            ELSE openFileAndInitialize(w2, i, fault)
       ELSE [w0 EXCEPT !.err = FALSE]

\* checkSizeAndRotate resetting the counter only once the stat succeeded.
checkSizeAndRotate_ResetAfterStat(w, i, fault) ==
    LET l == w.heap[i]
        w0 == Log([w EXCEPT !.heap[i].writesSinceCheckRotate = 0], "stat", l.rotation)
        fi == w0.files[<<l.filePath, l.rotation>>]
        next == IF l.rotation + 1 >= maxRotations THEN 0 ELSE l.rotation + 1
        w1 == Log([w0 EXCEPT !.heap[i].rotation = next], "remove", next)
        w2 == IF w1.files[<<l.filePath, next>>].exists
              THEN Unlink(w1, l.filePath, next)
              ELSE w1
    IN IF l.filePath = "" THEN [w EXCEPT !.err = FALSE]
       ELSE IF fault = "stat" \/ ~fi.exists
       THEN [Log(w, "stat", l.rotation) EXCEPT !.err = TRUE]
       ELSE IF Size(fi.data) > l.maxLogSize
       THEN IF fault = "remove" THEN [w1 EXCEPT !.err = TRUE]
            ELSE openFileAndInitialize(w2, i, fault)
       ELSE [w0 EXCEPT !.err = FALSE]

checkSizeAndRotate(w, i, fault) ==
    LET l == w.heap[i]
        w0 == Log([w EXCEPT !.heap[i].writesSinceCheckRotate = 0], "stat", l.rotation)
        fi == w0.files[<<l.filePath, l.rotation>>]
        next == IF l.rotation + 1 >= maxRotations THEN 0 ELSE l.rotation + 1
        w1 == Log([w0 EXCEPT !.heap[i].rotation = next], "remove", next)
        w2 == IF w1.files[<<l.filePath, next>>].exists
              THEN Unlink(w1, l.filePath, next)
              ELSE w1
    IN IF l.filePath = "" THEN [w EXCEPT !.err = FALSE]
       ELSE IF fault = "stat" \/ ~fi.exists THEN [w0 EXCEPT !.err = TRUE]
       ELSE IF Size(fi.data) > l.maxLogSize
       THEN IF fault = "remove" THEN [w1 EXCEPT !.err = TRUE]
            ELSE openFileAndInitialize(w2, i, fault)
       ELSE [w0 EXCEPT !.err = FALSE]

StatFault(slot) == IF slot = 0 THEN "stat0" ELSE "stat1"

\* The loop of initializeRotation from slot i0 on, then the code after it.
RECURSIVE scanRotations(_, _, _, _)
scanRotations(w, i, fault, i0) ==
    LET l == w.heap[i]
        w0 == Log(w, "stat", i0)
        fi == w0.files[<<l.filePath, i0>>]
        w1 == Log([w EXCEPT !.heap[i].rotation = 0], "remove", 0)
    IN IF i0 < maxRotations
       THEN IF fault = StatFault(i0) \/ ~fi.exists
            THEN [w0 EXCEPT !.heap[i].rotation = i0, !.err = FALSE]
            ELSE IF Size(fi.data) < l.maxLogSize
            THEN [w0 EXCEPT !.heap[i].rotation = i0, !.err = FALSE]
            ELSE scanRotations(w0, i, fault, i0 + 1)
       ELSE IF fault = "remove" \/ ~w1.files[<<l.filePath, 0>>].exists
            THEN [w1 EXCEPT !.err = TRUE]
            ELSE [Unlink(w1, l.filePath, 0) EXCEPT !.err = FALSE]

\* initializeRotation selecting also a file of exactly maxLogSize (<= for <).
initializeRotation_AtMax(w, i, fault) ==
    LET l == w.heap[i]
        sel(x, k) == [x EXCEPT !.heap[i].rotation = k, !.err = FALSE]
        a0 == Log(w, "stat", 0)
        f0 == w.files[<<l.filePath, 0>>]
        a1 == Log(a0, "stat", 1)
        f1 == w.files[<<l.filePath, 1>>]
        w1 == Log([a1 EXCEPT !.heap[i].rotation = 0], "remove", 0)
    IN IF fault = "stat0" \/ ~f0.exists \/ Size(f0.data) <= l.maxLogSize THEN sel(a0, 0)
       ELSE IF fault = "stat1" \/ ~f1.exists \/ Size(f1.data) <= l.maxLogSize THEN sel(a1, 1)
       ELSE IF fault = "remove" THEN [w1 EXCEPT !.err = TRUE]
       ELSE [Unlink(w1, l.filePath, 0) EXCEPT !.err = FALSE]

initializeRotation(w, i, fault) == scanRotations(w, i, fault, 0)

\* levelMaxWidth and flags only shape the text of a line and are left out.
NewLogger(filePath, level, checkLogSize, maxLogSize) ==
    [checkLogSize |-> checkLogSize,
     level |-> level,
     levels |-> Levels,
     loggers |-> "nil",
     file |-> NilFile,
     filePath |-> filePath,
     maxLogSize |-> maxLogSize,
     rotation |-> 0,
     writesSinceCheckRotate |-> 0]

\* New with the upper bound of the level check off by one (> for >=).
New_LevelOffByOne(w, name, filePath, level, checkLogSize, maxLogSize, fault) ==
    LET old == w.Map[name]
        w0 == IF old # 0 THEN Shutdown(w, old) ELSE w
        i == Len(w0.heap) + 1
        w1 == [w0 EXCEPT !.Map[name] = 0,
                         !.heap = Append(@, NewLogger(filePath, level, checkLogSize, maxLogSize)),
                         !.err = FALSE]
        fail(x) == [x EXCEPT !.heap = SubSeq(@, 1, i - 1), !.err = TRUE]
        w2 == initializeRotation(w1, i, fault)
        w3 == openFileAndInitialize(w2, i, fault)
    IN IF level < 0 \/ level > Len(Levels) THEN fail(w1)
       ELSE IF fault = "mkdir" THEN fail(w1)
       ELSE IF w2.err THEN fail(w2)
       ELSE IF w3.err THEN fail(w3)
       ELSE [w3 EXCEPT !.Map[name] = i]

\* New keeping the logger that was under the name when it returns an error.
New_KeepOnError(w, name, filePath, level, checkLogSize, maxLogSize, fault) ==
    LET old == w.Map[name]
        w0 == IF old # 0 THEN Shutdown(w, old) ELSE w
        i == Len(w0.heap) + 1
        w1 == [w0 EXCEPT !.Map[name] = 0,
                         !.heap = Append(@, NewLogger(filePath, level, checkLogSize, maxLogSize)),
                         !.err = FALSE]
        fail(x) == [x EXCEPT !.heap = SubSeq(@, 1, i - 1), !.err = TRUE, !.Map[name] = old]
        w2 == initializeRotation(w1, i, fault)
        w3 == openFileAndInitialize(w2, i, fault)
    IN IF level < 0 \/ level >= Len(Levels) THEN fail(w1)
       ELSE IF fault = "mkdir" THEN fail(w1)
       ELSE IF w2.err THEN fail(w2)
       ELSE IF w3.err THEN fail(w3)
       ELSE [w3 EXCEPT !.Map[name] = i]

New(w, name, filePath, level, checkLogSize, maxLogSize, fault) ==
    LET old == w.Map[name]
        w0 == IF old # 0 THEN Shutdown(w, old) ELSE w
        i == Len(w0.heap) + 1
        w1 == [w0 EXCEPT !.Map[name] = 0,
                         !.heap = Append(@, NewLogger(filePath, level, checkLogSize, maxLogSize)),
                         !.err = FALSE]
        \* an error return: the Logger is never stored, nobody can reach it
        fail(x) == [x EXCEPT !.heap = SubSeq(@, 1, i - 1), !.err = TRUE]
        w2 == initializeRotation(w1, i, fault)
        w3 == openFileAndInitialize(w2, i, fault)
    IN IF level < 0 \/ level >= Len(Levels) THEN fail(w1)
       ELSE IF fault = "mkdir" THEN fail(w1)
       ELSE IF w2.err THEN fail(w2)
       ELSE IF w3.err THEN fail(w3)
       ELSE [w3 EXCEPT !.Map[name] = i]

\* printCommon without the return after the diagnostic: the call goes on to
\* the counter and the size check.
printCommon_NoReturn(w, i, level, fault) ==
    LET l == w.heap[i]
        pass == level >= l.level
        w1 == IF pass THEN Output(w, i, Line(l.levels[level + 1], Msg)) ELSE w
        w2 == [w1 EXCEPT !.heap[i].writesSinceCheckRotate = @ + 1]
        r1 == [w EXCEPT !.reported = TRUE,
                        !.stdout = IF w.stdClosed THEN @ ELSE Append(@, Diagnostic)]
        r2 == [r1 EXCEPT !.heap[i].writesSinceCheckRotate = @ + 1]
    IN IF level >= Len(l.levels)
       THEN IF l.filePath = "" THEN r1
            ELSE IF r2.heap[i].writesSinceCheckRotate >= l.checkLogSize
            THEN checkSizeAndRotate(r2, i, fault)
            ELSE r2
       ELSE IF pass /\ l.loggers = "nil" THEN [w EXCEPT !.panic = TRUE]
       ELSE IF l.filePath = "" THEN w1
       ELSE IF w2.heap[i].writesSinceCheckRotate >= l.checkLogSize
       THEN checkSizeAndRotate(w2, i, fault)
       ELSE w2

\* printCommon counting only the messages that pass the filter.
printCommon_CountPassing(w, i, level, fault) ==
    LET l == w.heap[i]
        pass == level >= l.level
        w1 == IF pass THEN Output(w, i, Line(l.levels[level + 1], Msg)) ELSE w
        w2 == [w1 EXCEPT !.heap[i].writesSinceCheckRotate = @ + 1]
    IN IF level >= Len(l.levels)
       THEN [w EXCEPT !.reported = TRUE,
                      !.stdout = IF w.stdClosed THEN @ ELSE Append(@, Diagnostic)]
       ELSE IF pass /\ l.loggers = "nil" THEN [w EXCEPT !.panic = TRUE]
       ELSE IF l.filePath = "" \/ ~pass THEN w1
       ELSE IF w2.heap[i].writesSinceCheckRotate >= l.checkLogSize
       THEN checkSizeAndRotate(w2, i, fault)
       ELSE w2

printCommon(w, i, level, fault) ==
    LET l == w.heap[i]
        pass == level >= l.level
        w1 == IF pass THEN Output(w, i, Line(l.levels[level + 1], Msg)) ELSE w
        w2 == [w1 EXCEPT !.heap[i].writesSinceCheckRotate = @ + 1]
    IN IF level >= Len(l.levels)
       THEN [w EXCEPT !.reported = TRUE,
                      !.stdout = IF w.stdClosed THEN @ ELSE Append(@, Diagnostic)]
       ELSE IF pass /\ l.loggers = "nil" THEN [w EXCEPT !.panic = TRUE]
       ELSE IF l.filePath = "" THEN w1
       ELSE IF w2.heap[i].writesSinceCheckRotate >= l.checkLogSize
       THEN checkSizeAndRotate(w2, i, fault)
       ELSE w2

\* Shutdown of the registered loggers in the order the map iteration yields.
RECURSIVE shutdownEach(_, _, _)
shutdownEach(w, order, errOut) ==
    IF order = <<>> THEN [w EXCEPT !.err = errOut]
    ELSE LET k == Head(order)
             w1 == IF w.Map[k] # 0 THEN Shutdown(w, w.Map[k]) ELSE [w EXCEPT !.err = FALSE]
         IN shutdownEach(w1, Tail(order), errOut \/ w1.err)

\* ShutdownAll leaving the loop after the first logger it visits.
ShutdownAll_FirstOnly(w, order) ==
    [shutdownEach(w, <<Head(order)>>, FALSE) EXCEPT !.Map = [n \in Names |-> 0]]

ShutdownAll(w, order) ==
    [shutdownEach(w, order, FALSE) EXCEPT !.Map = [n \in Names |-> 0]]

\* ------------------------------------------------------------ the calls
\* A call works on the program state w and leaves its results in w.err (the
\* error it returns), w.reported (printCommon printed its diagnostic),
\* w.panic, w.io (the system calls it made on rotation files) and w.wrote
\* (the lines it wrote).
World ==
    [Map |-> Map, heap |-> heap, files |-> files, stdout |-> stdout,
     stdClosed |-> stdClosed, err |-> FALSE, reported |-> FALSE,
     panic |-> FALSE, io |-> {}, wrote |-> <<>>]

Commit(w) ==
    /\ Map' = w.Map
    /\ heap' = w.heap
    /\ files' = w.files
    /\ stdout' = w.stdout
    /\ stdClosed' = w.stdClosed
    /\ panicked' = w.panic

\* A failure is injected only where it changes what the call does.
Injected(fault, w, w0) ==
    \/ fault = "none" /\ nFault' = nFault
    \/ fault # "none" /\ w # w0 /\ nFault < MaxFaults /\ nFault' = nFault + 1

Init ==
    /\ Map = [n \in Names |-> 0]
    /\ heap = <<>>
    /\ files = [fn \in FileNames |-> NoFile]
    /\ stdout = <<>>
    /\ stdClosed = FALSE
    /\ panicked = FALSE
    /\ nNew = 0
    /\ nEmit = 0
    /\ nFault = 0

CallNew(name, filePath, level, checkLogSize, maxLogSize, fault) ==
    LET w == New(World, name, filePath, level, checkLogSize, maxLogSize, fault)
        w0 == New(World, name, filePath, level, checkLogSize, maxLogSize, "none")
    IN /\ ~panicked
       /\ nNew < MaxNew
       /\ Injected(fault, w, w0)
       /\ Commit(w)
       /\ nNew' = nNew + 1
       /\ UNCHANGED nEmit

\* Printf and Println through a *Logger the caller holds (Map[name] or a
\* method value taken from it earlier).
CallPrint(i, level, fault) ==
    LET w == printCommon(World, i, level, fault)
        w0 == printCommon(World, i, level, "none")
    IN /\ ~panicked
       /\ i \in DOMAIN heap
       /\ Injected(fault, w, w0)
       /\ Commit(w)
       /\ nEmit' = nEmit + 1
       /\ UNCHANGED nNew

\* Printf and Println through Map[name] when the name is not registered:
\* the receiver is nil and printCommon returns at once.
CallPrintNil(name) ==
    /\ ~panicked
    /\ Map[name] = 0
    /\ UNCHANGED vars

CallShutdown(i) ==
    LET w == Shutdown(World, i)
    IN /\ ~panicked
       /\ i \in DOMAIN heap
       /\ Commit(w)
       /\ UNCHANGED <<nNew, nEmit, nFault>>

\* The orders in which `for k := range Map` can visit the names.
Orders == {o \in [1 .. Cardinality(Names) -> Names] : \A n \in Names : \E k \in DOMAIN o : o[k] = n}

CallShutdownAll(order) ==
    LET w == ShutdownAll(World, order)
    IN /\ ~panicked
       /\ Commit(w)
       /\ UNCHANGED <<nNew, nEmit, nFault>>

\* Names and paths are interchangeable: "b" and "q" are drawn only once "a"
\* and "p" are in use.
UsableNames == {"a"} \cup (IF heap # <<>> THEN {"b"} ELSE {})
UsablePaths == {"", "p"} \cup (IF \E i \in DOMAIN heap : heap[i].filePath = "p" THEN {"q"} ELSE {})

Next ==
    \/ \E name \in UsableNames, filePath \in UsablePaths, level \in LevelInputs,
          checkLogSize \in CheckLogSizes, maxLogSize \in MaxLogSizes, fault \in NewFaults :
          CallNew(name, filePath, level, checkLogSize, maxLogSize, fault)
    \/ \E i \in DOMAIN heap, level \in SeverityInputs, fault \in EmitFaults :
          nEmit < MaxEmits /\ CallPrint(i, level, fault)
    \/ \E name \in Names : CallPrintNil(name)
    \/ \E i \in DOMAIN heap : CallShutdown(i)
    \/ \E order \in Orders : CallShutdownAll(order)

Spec == Init /\ [][Next]_vars

\* One name on one file path (or none), with more calls of Printf/Println.
NextOne ==
    \/ \E filePath \in {"", "p"}, level \in LevelInputs,
          checkLogSize \in CheckLogSizes, maxLogSize \in MaxLogSizes, fault \in NewFaults :
          CallNew("a", filePath, level, checkLogSize, maxLogSize, fault)
    \/ \E i \in DOMAIN heap, level \in SeverityInputs, fault \in EmitFaults :
          nEmit < MaxEmitsOne /\ CallPrint(i, level, fault)
    \/ CallPrintNil("a")
    \/ \E i \in DOMAIN heap : CallShutdown(i)
    \/ \E order \in Orders : CallShutdownAll(order)

SpecOne == Init /\ [][NextOne]_vars

\* What a rotation file left by an earlier process can be: absent, under
\* maxLogSize (one info line) or at maxLogSize (one debug line).
DiskFiles == {NoFile,
              [exists |-> TRUE, data |-> <<Line("info", Msg)>>],
              [exists |-> TRUE, data |-> <<Line("debug", Msg)>>]}

\* The process starts with rotation files of path "p" already on disk.
InitDisk ==
    /\ Map = [n \in Names |-> 0]
    /\ heap = <<>>
    /\ \E f0 \in DiskFiles, f1 \in DiskFiles :
           files = [fn \in FileNames |-> IF fn = <<"p", 0>> THEN f0
                                         ELSE IF fn = <<"p", 1>> THEN f1
                                         ELSE NoFile]
    /\ stdout = <<>>
    /\ stdClosed = FALSE
    /\ panicked = FALSE
    /\ nNew = 0
    /\ nEmit = 0
    /\ nFault = 0

NextDisk ==
    \/ \E filePath \in {"", "p"}, level \in LevelInputs,
          checkLogSize \in CheckLogSizes, maxLogSize \in MaxLogSizes, fault \in NewFaults :
          CallNew("a", filePath, level, checkLogSize, maxLogSize, fault)
    \/ \E i \in DOMAIN heap, level \in SeverityInputs, fault \in EmitFaults :
          nEmit < MaxEmitsDisk /\ CallPrint(i, level, fault)
    \/ CallPrintNil("a")
    \/ \E i \in DOMAIN heap : CallShutdown(i)
    \/ \E order \in Orders : CallShutdownAll(order)

SpecDisk == InitDisk /\ [][NextDisk]_vars

\* ------------------------------------------------------------ the claims
Live(l) == l.loggers = "set"
InRange == 0 .. (Len(Levels) - 1)
ValidNew(filePath, level) == filePath \in FilePaths /\ level \in InRange

\* One message per level, in order, through logger i (no injected failure).
RECURSIVE emitFrom(_, _, _)
emitFrom(w, i, s) ==
    IF s >= Len(Levels) \/ w.panic THEN w
    ELSE emitFrom(printCommon(w, i, s, "none"), i, s + 1)

EmitBatch(w, i) == emitFrom(w, i, 0)

LabelsOf(wrote) == [k \in DOMAIN wrote |-> wrote[k].ln.label]

\* C1: an Emit at an in-range severity s on a live logger writes exactly one
\* line, labelled levels[s], to the logger's active output when s is at or
\* above the threshold, and writes nothing when s is below it.
C1_EmitWritesIffPassing ==
    ~panicked =>
        \A i \in DOMAIN heap : \A s \in InRange : \A fault \in EmitFaults :
            Live(heap[i]) =>
                LET w == printCommon(World, i, s, fault)
                IN IF s >= heap[i].level
                   THEN w.wrote = <<[file |-> heap[i].file,
                                     ln |-> Line(heap[i].levels[s + 1], Msg)]>>
                   ELSE w.wrote = <<>>

\* C2: after New is called again under a registered name with the same file
\* path (empty or not), a batch of one message per level through Map[name]
\* puts on the logger's output exactly the messages at or above the new
\* threshold, once each, in the order emitted.
C2_ReNewBatchShowsPassingLabels ==
    ~panicked =>
        \A name \in Names : \A level \in InRange :
        \A checkLogSize \in CheckLogSizes : \A maxLogSize \in MaxLogSizes :
            Map[name] # 0 =>
                LET filePath == heap[Map[name]].filePath
                    w1 == New(World, name, filePath, level, checkLogSize, maxLogSize, "none")
                    w2 == EmitBatch(w1, w1.Map[name])
                IN ~w1.err =>
                       /\ ~w2.panic
                       /\ LabelsOf(w2.wrote) = SubSeq(Levels, level + 1, Len(Levels))

\* The handle of l is open on the named file filePath.rotation.
OnSlot(l) == l.filePath # "" /\ l.file = OpenFile(l.rotation)
Here(l) == <<l.filePath, l.rotation>>
Other(l) == <<l.filePath, 1 - l.rotation>>

\* C3: with checkLogSize 1 and no failure, the Emit that takes the active
\* file over maxLogSize switches to the other slot exactly once: the file
\* written so far keeps its content (with the line just written), the other
\* slot's old file is deleted and opened empty, and the next line lands
\* there.  An Emit that leaves the file at or under maxLogSize switches
\* nothing.  So .0 -> .1 leaves .0 alone, and .1 -> .0 finds .0 empty.
C3_RotationDeterminism ==
    ~panicked =>
        \A i \in DOMAIN heap : \A s \in InRange :
            LET l == heap[i]
                w == printCommon(World, i, s, "none")
                after == IF s >= l.level
                         THEN Append(files[Here(l)].data, Line(l.levels[s + 1], Msg))
                         ELSE files[Here(l)].data
            IN (Live(l) /\ OnSlot(l) /\ l.checkLogSize = 1) =>
                   IF Size(after) > l.maxLogSize
                   THEN /\ w.heap[i].rotation = 1 - l.rotation
                        /\ w.heap[i].file = OpenFile(1 - l.rotation)
                        /\ w.files[Here(l)] = [exists |-> TRUE, data |-> after]
                        /\ w.files[Other(l)] = EmptyFile
                   ELSE /\ w.heap[i].rotation = l.rotation
                        /\ w.heap[i].file = l.file
                        /\ w.files[Here(l)] = [exists |-> TRUE, data |-> after]
                        /\ w.files[Other(l)] = files[Other(l)]

\* C3 witness: a single logger, started on empty slots, has filled .0, moved
\* to .1, filled .1 and is back on slot 0, whose file is empty again.
C3_Witness ==
    /\ nNew = 1 /\ nFault = 0 /\ Len(heap) = 1
    /\ Live(heap[1]) /\ OnSlot(heap[1]) /\ heap[1].checkLogSize = 1
    /\ heap[1].rotation = 0
    /\ files[<<heap[1].filePath, 0>>] = EmptyFile
    /\ Size(files[<<heap[1].filePath, 1>>].data) > heap[1].maxLogSize

IsPrefix(a, b) == Len(a) <= Len(b) /\ SubSeq(b, 1, Len(a)) = a

\* The content of filePath.0 still starts with data.
Kept(w, filePath, data) ==
    /\ w.files[<<filePath, 0>>].exists
    /\ IsPrefix(data, w.files[<<filePath, 0>>].data)

\* Kept holds now and after every run of at most n emits through logger i.
RECURSIVE KeptForEver(_, _, _, _)
KeptForEver(w, i, data, n) ==
    /\ Kept(w, w.heap[i].filePath, data)
    /\ n > 0 => \A s \in InRange : KeptForEver(printCommon(w, i, s, "none"), i, data, n - 1)

\* The same, up to the call that rotates back into slot 0.
RECURSIVE KeptUntilWrap(_, _, _, _)
KeptUntilWrap(w, i, data, n) ==
    \/ <<"remove", 0>> \in w.io
    \/ /\ Kept(w, w.heap[i].filePath, data)
       /\ n > 0 => \A s \in InRange : KeptUntilWrap(printCommon(w, i, s, "none"), i, data, n - 1)

\* C4 as claimed: when filePath.0 exists under maxLogSize, New selects slot 0
\* and opens it for append, and after New and any subsequent emits the
\* content found there is still a prefix of filePath.0.
C4_PreexistingKeptForEver ==
    ~panicked =>
        \A name \in Names : \A filePath \in FilePaths \ {""} : \A level \in InRange :
        \A checkLogSize \in CheckLogSizes : \A maxLogSize \in MaxLogSizes :
            LET f0 == files[<<filePath, 0>>]
                w1 == New(World, name, filePath, level, checkLogSize, maxLogSize, "none")
                i == w1.Map[name]
            IN (f0.exists /\ Size(f0.data) < maxLogSize) =>
                   /\ ~w1.err
                   /\ w1.heap[i].rotation = 0
                   /\ w1.heap[i].file = OpenFile(0)
                   /\ KeptForEver(w1, i, f0.data, MaxRun)

\* C4 as amended: when filePath.0 exists under maxLogSize, New (failing or
\* not) leaves it as it is, a New that succeeds selects slot 0 and opens it
\* for append, and after the emits that follow the content found there is
\* still a prefix of filePath.0 unless the logger has rotated back into
\* slot 0, which deletes filePath.0.
C4_PreexistingKeptUntilWrap ==
    ~panicked =>
        \A name \in Names : \A filePath \in FilePaths \ {""} : \A level \in InRange :
        \A checkLogSize \in CheckLogSizes : \A maxLogSize \in MaxLogSizes :
            LET f0 == files[<<filePath, 0>>]
                w1 == New(World, name, filePath, level, checkLogSize, maxLogSize, "none")
                i == w1.Map[name]
            IN (f0.exists /\ Size(f0.data) < maxLogSize) =>
                   /\ \A fault \in NewFaults :
                          New(World, name, filePath, level, checkLogSize, maxLogSize,
                              fault).files[<<filePath, 0>>] = f0
                   /\ ~w1.err
                   /\ w1.heap[i].rotation = 0
                   /\ w1.heap[i].file = OpenFile(0)
                   /\ KeptUntilWrap(w1, i, f0.data, MaxRun)

\* C4 witness: the second logger on "p" found one line in p.0, was put on
\* slot 0 and has appended its own first line behind it.
C4_Witness ==
    /\ Len(heap) = 2 /\ nFault = 0
    /\ heap[1].filePath = "p" /\ ~Live(heap[1])
    /\ heap[2].filePath = "p" /\ Live(heap[2]) /\ OnSlot(heap[2])
    /\ heap[2].rotation = 0 /\ heap[2].level = 0
    /\ heap[2].checkLogSize = 2 /\ heap[2].writesSinceCheckRotate = 1
    /\ Len(files[<<"p", 0>>].data) = 2

\* What belongs to the logger at heap[j]: the object and its two files.
Owned(w, j) ==
    <<w.heap[j], w.files[<<w.heap[j].filePath, 0>>], w.files[<<w.heap[j].filePath, 1>>]>>

\* C5: of two loggers on distinct file paths, no Printf/Println (with or
\* without a rotation, failing or not) and no Shutdown of one changes the
\* other's files, slot, counter or handle; and after one is shut down, each
\* passing emit of the other, when it is writing to its file, still appends
\* its line to that file.
C5_DistinctLoggersIndependent ==
    ~panicked =>
        \A i \in DOMAIN heap : \A j \in DOMAIN heap :
            (/\ heap[i].filePath # ""
             /\ heap[j].filePath # ""
             /\ heap[i].filePath # heap[j].filePath) =>
                /\ \A s \in SeverityInputs : \A fault \in EmitFaults :
                       Owned(printCommon(World, i, s, fault), j) = Owned(World, j)
                /\ Owned(Shutdown(World, i), j) = Owned(World, j)
                /\ (Live(heap[j]) /\ heap[j].file.kind = "file" /\ ~heap[j].file.unlinked) =>
                       \A s \in InRange :
                           LET fn == <<heap[j].filePath, heap[j].file.slot>>
                               w == printCommon(Shutdown(World, i), j, s, "none")
                           IN s >= heap[j].level =>
                                  /\ ~w.panic
                                  /\ w.files[fn].exists
                                  /\ w.files[fn].data =
                                         Append(files[fn].data, Line(heap[j].levels[s + 1], Msg))

\* C5 witness: two loggers on "p" and "q"; the one on "p" wrote and rotated
\* and was shut down, the one on "q" has written a line since.
C5_Witness ==
    /\ Len(heap) = 2
    /\ heap[1].filePath = "p" /\ heap[2].filePath = "q"
    /\ Map["a"] = 1 /\ Map["b"] = 2
    /\ ~Live(heap[1]) /\ heap[1].rotation = 1
    /\ Live(heap[2]) /\ OnSlot(heap[2])
    /\ Len(files[<<"p", 0>>].data) = 2
    /\ files[<<"p", 1>>] = EmptyFile
    /\ Len(files[<<"q", 0>>].data) = 1

\* C6: for every live logger, a second Shutdown after a first Shutdown
\* returns no error and does not panic.
C6_ShutdownIdempotent ==
    ~panicked =>
        \A i \in DOMAIN heap :
            Live(heap[i]) =>
                LET w1 == Shutdown(World, i)
                    w2 == Shutdown(w1, i)
                IN ~w2.err /\ ~w2.panic

\* C7: a Printf/Println with a severity index >= len(levels) prints the
\* diagnostic and nothing else happens: no log line is written, no panic, no
\* system call on a rotation file, and every logger (counter, slot, handle),
\* every file and the registry are as before.
C7_OutOfRangeEmitIsNoOp ==
    ~panicked =>
        \A i \in DOMAIN heap : \A s \in SeverityInputs : \A fault \in EmitFaults :
            s >= Len(heap[i].levels) =>
                LET w == printCommon(World, i, s, fault)
                IN /\ w.reported
                   /\ ~w.panic
                   /\ w.wrote = <<>>
                   /\ w.io = {}
                   /\ w.heap = heap
                   /\ w.files = files
                   /\ w.Map = Map
                   /\ w.stdClosed = stdClosed
                   /\ w.stdout = IF stdClosed THEN stdout ELSE Append(stdout, Diagnostic)

\* C7 witness: the diagnostic was printed for a file logger that is one
\* write short of its size check.
C7_Witness ==
    /\ \E k \in DOMAIN stdout : stdout[k] = Diagnostic
    /\ \E i \in DOMAIN heap :
           /\ Live(heap[i]) /\ OnSlot(heap[i])
           /\ heap[i].checkLogSize = 2
           /\ heap[i].writesSinceCheckRotate = 1
           /\ Len(files[Here(heap[i])].data) = 1

\* C8: a New whose level is not in 0 <= level < len(levels) returns an error
\* and registers no logger, whatever else fails; so every logger there is,
\* registered or not, has its level within the bounds of its levels.
C8_LevelValidated ==
    /\ \A i \in DOMAIN heap : heap[i].level >= 0 /\ heap[i].level < Len(heap[i].levels)
    /\ \A name \in Names : Map[name] # 0 => Map[name] \in DOMAIN heap
    /\ ~panicked =>
           \A name \in Names : \A filePath \in FilePaths :
           \A level \in LevelInputs \ InRange :
           \A checkLogSize \in CheckLogSizes : \A maxLogSize \in MaxLogSizes :
           \A fault \in NewFaults :
               LET w == New(World, name, filePath, level, checkLogSize, maxLogSize, fault)
               IN /\ w.err
                  /\ w.Map[name] = 0
                  /\ \A n \in Names \ {name} : w.Map[n] = Map[n]
                  /\ Len(w.heap) = Len(heap)
                  /\ w.files = files
                  /\ w.io = {}

\* C8 witness: New was called, nothing was made to fail, and no Logger came
\* of it: the call was refused for its level.
C8_Witness ==
    /\ nNew >= 1
    /\ nFault = 0
    /\ heap = <<>>
    /\ Map = [n \in Names |-> 0]

\* C9: when the open of the selected rotation file fails in New, the logger
\* is nevertheless registered, live, with the default stream as its output,
\* its passing emits go to that stream, and New returns the open error.
C9_OpenFailureFallsBack ==
    ~panicked =>
        \A name \in Names : \A filePath \in FilePaths \ {""} :
        \A level \in InRange :
        \A checkLogSize \in CheckLogSizes : \A maxLogSize \in MaxLogSizes :
            LET w == New(World, name, filePath, level, checkLogSize, maxLogSize, "open")
                i == w.Map[name]
            IN /\ w.err
               /\ i # 0
               /\ Live(w.heap[i])
               /\ w.heap[i].file = StdFile
               /\ \A s \in InRange :
                      s >= level =>
                          printCommon(w, i, s, "none").wrote =
                              <<[file |-> StdFile, ln |-> Line(Levels[s + 1], Msg)]>>

\* C10: with an empty file path New makes no system call on a rotation file,
\* and the emits of such a logger go to the default stream without a size
\* check, a change of slot or a change to any file.
C10_EmptyPathBypassesSelector ==
    ~panicked =>
        /\ \A name \in Names : \A level \in InRange :
           \A checkLogSize \in CheckLogSizes : \A maxLogSize \in MaxLogSizes :
               LET w == New(World, name, "", level, checkLogSize, maxLogSize, "none")
               IN /\ ~w.err
                  /\ w.io = {}
                  /\ w.files = files
                  /\ w.heap[w.Map[name]].file = StdFile
        /\ \A i \in DOMAIN heap :
               (Live(heap[i]) /\ heap[i].filePath = "") =>
                   \A s \in InRange : \A fault \in EmitFaults :
                       LET w == printCommon(World, i, s, fault)
                       IN /\ w.io = {}
                          /\ w.files = files
                          /\ w.heap[i].rotation = heap[i].rotation
                          /\ s >= heap[i].level =>
                                 w.wrote = <<[file |-> StdFile,
                                              ln |-> Line(heap[i].levels[s + 1], Msg)]>>

\* The registered loggers, and whether l.file of a logger is already closed.
Registered == {Map[n] : n \in {m \in Names : Map[m] # 0}}
FileClosed(w, l) ==
    \/ l.file.kind = "file" /\ l.file.closed
    \/ l.file.kind = "std" /\ w.stdClosed

\* C11: ShutdownAll, in whatever order the registry is visited, shuts down
\* every registered logger (its per-level loggers are gone and its file is
\* closed) also when the Shutdown of another one fails, leaves the registry
\* empty, and returns an error exactly when some Shutdown failed: a logger's
\* file was closed already, or two of them share the default stream.
C11_ShutdownAllShutsEveryLogger ==
    ~panicked =>
        \A order \in Orders :
            LET w == ShutdownAll(World, order)
                onStd == {i \in Registered : heap[i].file.kind = "std"}
            IN /\ ~w.panic
               /\ w.Map = [n \in Names |-> 0]
               /\ \A i \in Registered :
                      /\ ~Live(w.heap[i])
                      /\ FileClosed(w, w.heap[i])
               /\ \A i \in DOMAIN heap \ Registered : w.heap[i] = heap[i]
               /\ w.files = files
               /\ w.err <=> \/ \E i \in Registered : FileClosed(World, heap[i])
                            \/ Cardinality(onStd) >= 2

\* C11 witness: two loggers registered on the default stream; the Shutdown
\* of the second one visited fails, and both are shut down and unregistered.
C11_Witness ==
    /\ nNew = 2
    /\ Len(heap) = 2
    /\ heap[1].filePath = "" /\ heap[2].filePath = ""
    /\ Map = [n \in Names |-> 0]
    /\ ~Live(heap[1]) /\ ~Live(heap[2])
    /\ stdClosed

\* C12: no Printf/Println with an in-range severity panics, whatever was
\* called before and whatever stat, remove or open fails in it, also through
\* a *Logger that was shut down or replaced by a New under its name.
C12_EmitNeverPanics ==
    /\ ~panicked
    /\ \A i \in DOMAIN heap : \A s \in InRange : \A fault \in EmitFaults :
           ~printCommon(World, i, s, fault).panic

\* C13: no two live loggers have the same non-empty file path.
C13_NoTwoLiveShareFilePath ==
    \A i \in DOMAIN heap : \A j \in DOMAIN heap :
        (i # j /\ Live(heap[i]) /\ Live(heap[j]) /\ heap[i].filePath # "") =>
            heap[i].filePath # heap[j].filePath

\* A rotation file that initializeRotation passes over.
Full(f, maxLogSize) == f.exists /\ Size(f.data) >= maxLogSize

\* C14: with no failure, New on a file path selects slot 0 when .0 is absent
\* or under maxLogSize, else slot 1 when .1 is absent or under maxLogSize,
\* else slot 0 after removing .0; it removes nothing else, it opens the
\* selected file keeping what a file under maxLogSize holds, and the
\* selected file is under maxLogSize when New returns.
C14_StartupSelection ==
    ~panicked =>
        \A name \in Names : \A filePath \in FilePaths \ {""} : \A level \in InRange :
        \A checkLogSize \in CheckLogSizes : \A maxLogSize \in MaxLogSizes :
            LET w == New(World, name, filePath, level, checkLogSize, maxLogSize, "none")
                f0 == files[<<filePath, 0>>]
                f1 == files[<<filePath, 1>>]
                both == Full(f0, maxLogSize) /\ Full(f1, maxLogSize)
                sel == IF ~Full(f0, maxLogSize) THEN 0
                       ELSE IF ~Full(f1, maxLogSize) THEN 1 ELSE 0
                old == files[<<filePath, sel>>]
                l == w.heap[w.Map[name]]
            IN /\ ~w.err
               /\ w.Map[name] = Len(w.heap)
               /\ l.rotation = sel
               /\ l.file = OpenFile(sel)
               /\ w.files[<<filePath, sel>>] =
                      IF both \/ ~old.exists THEN EmptyFile ELSE old
               /\ \A fn \in FileNames \ {<<filePath, sel>>} : w.files[fn] = files[fn]
               /\ (<<"remove", 0>> \in w.io) <=> both
               /\ <<"remove", 1>> \notin w.io
               /\ Size(w.files[<<filePath, sel>>].data) < maxLogSize

\* C14 witness: the process found p.0 at maxLogSize and p.1 under it; New
\* selected slot 1 and opened p.1 with what it held.
C14_Witness ==
    /\ nNew = 1 /\ nEmit = 0 /\ nFault = 0
    /\ Len(heap) = 1
    /\ heap[1].filePath = "p" /\ heap[1].rotation = 1
    /\ Live(heap[1]) /\ OnSlot(heap[1])
    /\ files[<<"p", 0>>].data = <<Line("debug", Msg)>>
    /\ files[<<"p", 1>>].data = <<Line("info", Msg)>>

\* The lines of a file.
LinesOf(f) == {f.data[k] : k \in DOMAIN f.data}

\* C15: when New finds both rotation files at or over maxLogSize, the file
\* it removes holds only lines older than every line of the file it keeps.
\* A line that is on no file of the path, emitted through a live logger
\* just before that New, is newer than every line on disk: it is not in the
\* removed .0 while the kept .1 holds lines.
C15_NewEvictsOldest ==
    ~panicked =>
        \A i \in DOMAIN heap : \A s \in InRange :
        \A name \in Names : \A level \in InRange :
        \A checkLogSize \in CheckLogSizes : \A maxLogSize \in MaxLogSizes :
            LET filePath == heap[i].filePath
                ln == Line(heap[i].levels[s + 1], Msg)
                w1 == printCommon(World, i, s, "none")
                w2 == New(w1, name, filePath, level, checkLogSize, maxLogSize, "none")
                f0 == w1.files[<<filePath, 0>>]
                f1 == w1.files[<<filePath, 1>>]
            IN (/\ Live(heap[i]) /\ filePath # "" /\ s >= heap[i].level
                /\ ln \notin LinesOf(files[<<filePath, 0>>])
                /\ ln \notin LinesOf(files[<<filePath, 1>>])
                /\ Full(f0, maxLogSize) /\ Full(f1, maxLogSize)) =>
                   /\ <<"remove", 0>> \in w2.io
                   /\ ln \notin LinesOf(f0)

\* The same open file, whatever has been written through it.
SameHandle(f, g) == [f EXCEPT !.data = <<>>] = [g EXCEPT !.data = <<>>]

\* C16: a Printf/Println with an in-range severity on a file logger (live,
\* or shut down and filtering the message) counts, passing the filter or
\* not; the call that brings writesSinceCheckRotate to checkLogSize, and no
\* other, stats the active slot's file and leaves the counter at zero.
C16_EveryEmitCountsCheckAtInterval ==
    ~panicked =>
        \A i \in DOMAIN heap : \A s \in InRange : \A fault \in EmitFaults :
            LET l == heap[i]
                w == printCommon(World, i, s, fault)
                l1 == w.heap[i]
            IN (l.filePath # "" /\ (Live(l) \/ s < l.level)) =>
                   /\ ~w.panic
                   /\ l.writesSinceCheckRotate < l.checkLogSize
                   /\ IF l.writesSinceCheckRotate + 1 = l.checkLogSize
                      THEN /\ <<"stat", l.rotation>> \in w.io
                           /\ l1.writesSinceCheckRotate = 0
                      ELSE /\ w.io = {}
                           /\ l1.writesSinceCheckRotate = l.writesSinceCheckRotate + 1
                           /\ l1.rotation = l.rotation
                           /\ SameHandle(l1.file, l.file)

\* C16 witness: one filtered message through a logger that checks every
\* second call: nothing was written and the counter is at one.
C16_Witness ==
    /\ nNew = 1 /\ nEmit = 1 /\ nFault = 0
    /\ Len(heap) = 1
    /\ Live(heap[1]) /\ OnSlot(heap[1])
    /\ heap[1].level = 1
    /\ heap[1].checkLogSize = 2
    /\ heap[1].writesSinceCheckRotate = 1
    /\ files[Here(heap[1])] = EmptyFile
    /\ stdout = <<>>

\* C17: writesSinceCheckRotate is at least 0 and under checkLogSize between
\* calls, also after a Printf/Println whose size check or rotation failed,
\* and inside a call it is never over checkLogSize.
C17_CounterUnderInterval ==
    /\ \A i \in DOMAIN heap :
           /\ heap[i].writesSinceCheckRotate >= 0
           /\ heap[i].writesSinceCheckRotate < heap[i].checkLogSize
    /\ ~panicked =>
           \A i \in DOMAIN heap : \A s \in InRange : \A fault \in EmitFaults :
               LET w == printCommon(World, i, s, fault)
               IN /\ heap[i].writesSinceCheckRotate + 1 <= heap[i].checkLogSize
                  /\ w.heap[i].writesSinceCheckRotate >= 0
                  /\ w.heap[i].writesSinceCheckRotate < heap[i].checkLogSize

\* C17 witness: the second call through a logger that checks every second
\* call found the stat failing; the counter is back at zero.
C17_Witness ==
    /\ nNew = 1 /\ nEmit = 2 /\ nFault = 1
    /\ Len(heap) = 1
    /\ Live(heap[1]) /\ OnSlot(heap[1])
    /\ heap[1].checkLogSize = 2
    /\ heap[1].writesSinceCheckRotate = 0
    /\ heap[1].rotation = 0
    /\ Len(files[Here(heap[1])].data) = 2

\* The longest line a logger can write.
MaxLineSize == LineSize(Line("debug", Msg))

\* C18: with no I/O failure, the file of the active slot of a live file
\* logger is never larger than maxLogSize + (checkLogSize - 1) * L, L the
\* size of the longest line.
C18_OvershootBound ==
    (~panicked /\ nFault = 0) =>
        \A i \in DOMAIN heap :
            (Live(heap[i]) /\ heap[i].filePath # "") =>
                Size(files[Here(heap[i])].data) <=
                    heap[i].maxLogSize + (heap[i].checkLogSize - 1) * MaxLineSize

\* C19: between calls every live logger with a file path has its slot in
\* 0..1 and its open handle on the file <path>.<slot> of that slot, also
\* after a Printf/Println whose rotation failed at stat, remove or open.
C19_HandleOnCurrentSlot ==
    \A i \in DOMAIN heap :
        (Live(heap[i]) /\ heap[i].filePath # "") =>
            /\ heap[i].rotation \in Slots
            /\ heap[i].file = OpenFile(heap[i].rotation)
            /\ files[Here(heap[i])].exists

\* A call of checkSizeAndRotate in w got as far as the open.
Opened(w) == \E slot \in Slots : <<"open", slot>> \in w.io

\* The next n passing Printf/Println of logger i each write exactly one line
\* to the logger's output and do not panic.
RECURSIVE KeepsWriting(_, _, _)
KeepsWriting(w, i, n) ==
    \A s \in InRange :
        s >= w.heap[i].level =>
            LET w1 == printCommon(w, i, s, "none")
            IN /\ ~w1.panic
               /\ w1.wrote = Append(w.wrote, [file |-> w.heap[i].file,
                                              ln |-> Line(w.heap[i].levels[s + 1], Msg)])
               /\ n > 1 => KeepsWriting(w1, i, n - 1)

\* C20: after a Printf/Println of a live file logger in which the size check
\* or the rotation failed, the logger writes on: its output is the file it
\* had when the stat or the remove failed, the default stream when the open
\* failed, and every later passing call writes exactly one line and does not
\* panic.
C20_FailedRotationKeepsLogging ==
    ~panicked =>
        \A i \in DOMAIN heap : \A s \in InRange : \A fault \in EmitFaults :
            LET l == heap[i]
                w == printCommon(World, i, s, fault)
                clean == [w EXCEPT !.wrote = <<>>, !.io = {}, !.err = FALSE]
            IN (Live(l) /\ l.filePath # "" /\ ~w.panic /\ w.err) =>
                   /\ Live(w.heap[i])
                   /\ IF ~Opened(w) THEN SameHandle(w.heap[i].file, l.file)
                      ELSE IF fault = "open" THEN w.heap[i].file = StdFile
                      ELSE w.heap[i].file = OpenFile(w.heap[i].rotation)
                   /\ KeepsWriting(clean, i, 2)

\* Within the next n Printf/Println of logger i, whatever their in-range
\* severities and with nothing failing, the logger comes to write to the
\* open file of its slot.
RECURSIVE BackOnSlot(_, _, _)
BackOnSlot(w, i, n) ==
    \/ ~w.panic /\ Live(w.heap[i]) /\ OnSlot(w.heap[i])
    \/ /\ n > 0
       /\ ~w.panic
       /\ \A s \in InRange : BackOnSlot(printCommon(w, i, s, "none"), i, n - 1)

\* C21: when the rotation of a live file logger fails at the remove or at
\* the open of the next slot and nothing fails afterwards, the logger is
\* writing to the open file <path>.<slot> of its slot within the next
\* checkLogSize calls.
C21_FailedRotationRetried ==
    ~panicked =>
        \A i \in DOMAIN heap : \A s \in InRange : \A fault \in {"remove", "open"} :
            LET l == heap[i]
                w == printCommon(World, i, s, fault)
            IN (/\ Live(l) /\ OnSlot(l)
                /\ ~w.panic /\ w.err
                /\ <<"remove", 1 - l.rotation>> \in w.io) =>
                   BackOnSlot(w, i, l.checkLogSize)

\* C22: no logger closes the default stream: os.Stdout is open in every
\* state, and neither the Shutdown of a logger, nor ShutdownAll, nor the
\* New that replaces a logger closes it.
C22_DefaultStreamStaysOpen ==
    /\ ~stdClosed
    /\ ~panicked =>
           /\ \A i \in DOMAIN heap : ~Shutdown(World, i).stdClosed
           /\ \A order \in Orders : ~ShutdownAll(World, order).stdClosed
           /\ \A name \in Names : \A level \in InRange :
              \A checkLogSize \in CheckLogSizes : \A maxLogSize \in MaxLogSizes :
                  LET w == New(World, name, "", level, checkLogSize, maxLogSize, "none")
                  IN /\ ~w.stdClosed
                     /\ KeepsWriting(w, w.Map[name], 1)

\* What can make New return an error: its level, or else a failing MkdirAll,
\* Remove or OpenFile (a failing Stat selects the slot, logh.go:200-204).
NewFailures(level) ==
    IF level \in InRange THEN {"mkdir", "remove", "open"} ELSE {"none"}

TypeOK ==
    /\ \A n \in Names : Map[n] \in 0 .. Len(heap)
    /\ \A i \in DOMAIN heap : heap[i].rotation \in Slots
====
